---- MODULE Spec2Model ----
(***************************************************************************)
(* Model of the a2t reference providers (provider.go): the in-memory       *)
(* SimpleProvider and GroupProviderImpl, their listing / pagination code,  *)
(* the query matcher and tool execution; of the meta-response constructors *)
(* and of the group handlers of the HTTP server.                           *)
(*                                                                         *)
(* Conventions                                                             *)
(*  - a Go string that is searched or lower-cased is a sequence of         *)
(*    one-character strings; identifiers that are only compared for        *)
(*    equality (group ids, error codes) are plain TLA+ strings;            *)
(*  - a Go pointer or interface value is a sequence of length 0 (nil) or 1;*)
(*  - a Go int is a two's-complement integer of IntBits bits;              *)
(*  - a Go map is a function whose DOMAIN is the set of keys; ranging over *)
(*    it visits the keys in an order the runtime picks.                    *)
(***************************************************************************)
EXTENDS Integers, Sequences, FiniteSets, TLC

VARIABLES
    tools,         \* SimpleProvider.tools
    executors,     \* SimpleProvider.executors
    groups,        \* GroupProviderImpl.groups
    resp,          \* the outcome of the caller's last call
    tier,          \* the provider handed to NewServer: "simple" or "group"
    capabilities,  \* SimpleProvider.capabilities
    wpc,           \* where a RegisterTool running in another goroutine stands
    lastTool,      \* history: per name, the arguments of the latest RegisterTool
    lastGroup      \* history: per id, the argument of the latest RegisterGroup

vars == <<tools, executors, groups, resp, tier, capabilities, wpc,
          lastTool, lastGroup>>

\* what no request and no registration made by the caller changes
fixed == <<tier, capabilities, wpc>>

\* the history of the registrations
hist == <<lastTool, lastGroup>>

(***************************************************************************)
(* Bounds                                                                  *)
(***************************************************************************)
\* width of the modelled Go int (the real one has 64 or 32 bits); wide enough
\* for the default limits of the handlers
IntBits == 8

RECURSIVE Pow2(_)
Pow2(n) == IF n = 0 THEN 1 ELSE 2 * Pow2(n - 1)

MaxInt == Pow2(IntBits - 1) - 1
MinInt == 0 - Pow2(IntBits - 1)

\* Go's int addition: wraps around on overflow
IntAdd(a, b) == ((a + b - MinInt) % Pow2(IntBits)) + MinInt

(***************************************************************************)
(* Strings                                                                 *)
(***************************************************************************)
\* unicode.ToLower on the characters the model uses
LowerChar(c) ==
    CASE c = "A" -> "a"
      [] c = "B" -> "b"
      [] c = "D" -> "d"
      [] OTHER -> c

\* strings.ToLower
ToLower(s) == [i \in 1..Len(s) |-> LowerChar(s[i])]

\* strings.Contains
Contains(s, sub) ==
    \E i \in 0..(Len(s) - Len(sub)) : SubSeq(s, i + 1, i + Len(sub)) = sub

\* matchesQuery that forgets to lower-case the query
matchesQuery_QueryNotLowered(name, description, query) ==
    LET n == ToLower(name)
        d == ToLower(description)
    IN  Contains(n, query) \/ Contains(d, query)

\* matchesQuery (provider.go): case-insensitive substring match on the name
\* or the description
matchesQuery(name, description, query) ==
    LET q == ToLower(query)
        n == ToLower(name)
        d == ToLower(description)
    IN  Contains(n, q) \/ Contains(d, q)

(***************************************************************************)
(* Go values                                                               *)
(***************************************************************************)
Nil == <<>>
Ptr(v) == <<v>>

\* type Tool struct (InputSchema plays no part in the provider's logic)
Tool(name, description, groupID) ==
    [Name |-> name, Description |-> description, GroupID |-> groupID]

\* type Group struct
Group(id, name, description, parentID) ==
    [ID |-> id, Name |-> name, Description |-> description, ParentID |-> parentID]

\* type ErrorDetail struct
ErrorDetail(code, message) == [Code |-> code, Message |-> message]

\* A ToolExecutor is any Go function (or the nil function).  What matters to
\* the provider is what a call of it does:
\*   kind "return": it returns (value, err); value and err are nil or set
\*   kind "panic" : it panics (a failed type assertion, an index out of range)
\*   kind "nil"   : the registered function value is nil
Executor(kind, value, err) == [kind |-> kind, value |-> value, err |-> err]

\* err.Error() of an error value built by errors.New / fmt.Errorf
ErrorString(e) == e.desc

\* NewCapabilities()
NewCapabilities ==
    [Version |-> "1.0",
     Features |-> [Groups |-> FALSE, Search |-> FALSE, DynamicTools |-> FALSE],
     Endpoints |-> [Tools |-> "/tools", Groups |-> ""],
     Limits |-> Nil]

\* (c *Capabilities) WithGroups(endpoint)
WithGroups(c, endpoint) ==
    [c EXCEPT !.Features.Groups = TRUE,
              !.Endpoints.Groups = IF endpoint = "" THEN "/groups" ELSE endpoint]

\* NewSimpleProvider(capabilities): the capabilities the provider holds
NewSimpleProvider(caps) == IF caps = Nil THEN NewCapabilities ELSE caps[1]

\* NewGroupProvider(capabilities): the capabilities the provider holds
NewGroupProvider(caps) ==
    LET c == IF caps = Nil THEN NewCapabilities ELSE caps[1]
    IN  NewSimpleProvider(Ptr(WithGroups(c, "")))

(***************************************************************************)
(* Inputs the model draws from                                             *)
(***************************************************************************)
nAd == <<"A", "d">>
nab == <<"a", "b">>
nB == <<"B">>

\* (tool, executor) pairs offered to RegisterTool.  Two tools per name, so
\* that re-registration under a name changes the tool and the executor.
RegInputs ==
    { [tool |-> Tool(nAd, <<>>, "math"),
       executor |-> Executor("return", Ptr("v1"), Nil)],
      [tool |-> Tool(nAd, <<"b", "A">>, "string"),
       executor |-> Executor("return", Nil, Ptr([desc |-> "boom"]))],
      [tool |-> Tool(nab, <<>>, ""),
       executor |-> Executor("return", Ptr("v2"), Ptr([desc |-> "bad"]))],
      [tool |-> Tool(nab, <<"D", "a">>, "math"),
       executor |-> Executor("panic", Nil, Nil)],
      [tool |-> Tool(nB, <<"a", "d">>, "string"),
       executor |-> Executor("nil", Nil, Nil)],
      [tool |-> Tool(nB, <<>>, "math"),
       executor |-> Executor("return", Nil, Nil)] }

\* groups offered to RegisterGroup
GroupInputs ==
    { Group("math", <<"a", "B">>, <<>>, ""),
      Group("math", <<"D">>, <<"a", "d">>, "string"),
      Group("string", <<"b">>, <<"A">>, "math") }

\* groupID / parentID arguments of the listings ("" = no filter, "other" is
\* carried by no tool and no group)
GroupArgs == {"", "math", "string", "other"}

\* query arguments of the listings
Queries == { <<>>, <<"a">>, <<"A", "D">>, <<"d", "a">> }

\* offset and limit arguments: Go ints, negative ones and the extremes included
PageInts == {MinInt, -1, 0, 1, 2, 3, MaxInt}

\* toolName arguments of ExecuteTool
ExecNames == { nAd, nab, nB, <<"a", "d">>, <<"z">> }

(***************************************************************************)
(* The outcome of the last call, as its caller sees it                     *)
(*   outcome "return": the call returned (ret, err)                        *)
(*   outcome "panic" : the call panicked, nothing was returned             *)
(*   ran             : the names whose executor the call invoked           *)
(*   via             : the provider methods a server handler called        *)
(***************************************************************************)
Call(op, arg, outcome, ret, err, ran) ==
    [op |-> op, arg |-> arg, outcome |-> outcome, ret |-> ret, err |-> err,
     ran |-> ran, via |-> << >>]

NoCall == Call("none", << >>, "return", Nil, Nil, {})

\* no RegisterTool is running in another goroutine
NoWriter == [at |-> "idle", in |-> Nil]

\* state after NewGroupProvider(nil): empty maps, no call made
Init ==
    /\ tools = << >>
    /\ executors = << >>
    /\ groups = << >>
    /\ resp = NoCall
    /\ tier = "group"
    /\ capabilities = NewGroupProvider(Nil)
    /\ wpc = NoWriter
    /\ lastTool = << >>
    /\ lastGroup = << >>

\* The provider is driven by one caller at a time: a call is made when the
\* outcome of the previous one has been taken.
Idle == resp = NoCall

\* the caller takes the outcome of its call (the handler's
\* `*output = *resp; return nil`, or the unwinding of a panic)
Return ==
    /\ ~Idle
    /\ resp' = NoCall
    /\ UNCHANGED <<tools, executors, groups, fixed, hist>>

\* m[k] = v on a Go map
MapSet(m, k, v) == [x \in (DOMAIN m) \cup {k} |-> IF x = k THEN v ELSE m[x]]

\* RegisterTool that leaves the executor already held under the name in place
RegisterTool_KeepsExecutor(in) ==
    /\ Idle
    /\ tools' = MapSet(tools, in.tool.Name, in.tool)
    /\ executors' = IF in.tool.Name \in DOMAIN executors
                    THEN executors
                    ELSE MapSet(executors, in.tool.Name, in.executor)
    /\ resp' = Call("RegisterTool", in, "return", Nil, Nil, {})
    /\ lastTool' = [n \in (DOMAIN lastTool) \cup {in.tool.Name} |->
                        IF n = in.tool.Name THEN in ELSE lastTool[n]]
    /\ UNCHANGED <<groups, fixed, lastGroup>>

\* RegisterTool(tool, executor)
RegisterTool(in) ==
    /\ Idle
    /\ tools' = MapSet(tools, in.tool.Name, in.tool)
    /\ executors' = MapSet(executors, in.tool.Name, in.executor)
    /\ resp' = Call("RegisterTool", in, "return", Nil, Nil, {})
    /\ lastTool' = [n \in (DOMAIN lastTool) \cup {in.tool.Name} |->
                        IF n = in.tool.Name THEN in ELSE lastTool[n]]
    /\ UNCHANGED <<groups, fixed, lastGroup>>

\* RegisterGroup that leaves a group already held under the id in place
RegisterGroup_KeepsFirst(g) ==
    /\ Idle
    /\ tier = "group"
    /\ groups' = IF g.ID \in DOMAIN groups THEN groups ELSE MapSet(groups, g.ID, g)
    /\ resp' = Call("RegisterGroup", g, "return", Nil, Nil, {})
    /\ lastGroup' = [i \in (DOMAIN lastGroup) \cup {g.ID} |->
                         IF i = g.ID THEN g ELSE lastGroup[i]]
    /\ UNCHANGED <<tools, executors, fixed, lastTool>>

\* RegisterGroup(group), a method of GroupProviderImpl only
RegisterGroup(g) ==
    /\ Idle
    /\ tier = "group"
    /\ groups' = MapSet(groups, g.ID, g)
    /\ resp' = Call("RegisterGroup", g, "return", Nil, Nil, {})
    /\ lastGroup' = [i \in (DOMAIN lastGroup) \cup {g.ID} |->
                         IF i = g.ID THEN g ELSE lastGroup[i]]
    /\ UNCHANGED <<tools, executors, fixed, lastTool>>

\* the orders in which `for _, v := range m` may visit the keys of m
RangeOrders(m) ==
    LET n == Cardinality(DOMAIN m)
    IN  { o \in [1..n -> DOMAIN m] : \A i, j \in 1..n : o[i] = o[j] => i = j }

\* the Go slice expression s[lo:hi]: panics unless 0 <= lo <= hi <= cap(s).
\* Both listings only reach it with hi <= len(s) or hi < lo, so len stands
\* for cap.
Slice(s, lo, hi) ==
    IF 0 <= lo /\ lo <= hi /\ hi <= Len(s)
    THEN [panic |-> FALSE, items |-> SubSeq(s, lo + 1, hi)]
    ELSE [panic |-> TRUE, items |-> <<>>]

\* the filter loop without the group test
FilterTools_NoGroupTest(order, groupID, query) ==
    LET all == [i \in 1..Len(order) |-> tools[order[i]]]
        Keep(tool) ==
            ~(query # <<>> /\ ~matchesQuery(tool.Name, tool.Description, query))
    IN  SelectSeq(all, Keep)

\* ListTools, the filter loop: the tools appended, in visiting order
FilterTools(order, groupID, query) ==
    LET all == [i \in 1..Len(order) |-> tools[order[i]]]
        Keep(tool) ==
            /\ ~(groupID # "" /\ tool.GroupID # groupID)
            /\ ~(query # <<>> /\ ~matchesQuery(tool.Name, tool.Description, query))
    IN  SelectSeq(all, Keep)

\* the pagination without the `offset >= len(tools)` branch
PaginateTools_NoOffsetTest(matched, offset, limit) ==
    LET end0 == IntAdd(offset, limit)
        end == IF limit = 0 \/ end0 > Len(matched) THEN Len(matched) ELSE end0
    IN  Slice(matched, offset, end)

\* ListTools, "Apply pagination"
PaginateTools(matched, offset, limit) ==
    IF offset >= Len(matched)
    THEN [panic |-> FALSE, items |-> <<>>]
    ELSE LET end0 == IntAdd(offset, limit)
             end == IF limit = 0 \/ end0 > Len(matched) THEN Len(matched) ELSE end0
         IN  Slice(matched, offset, end)

\* ListTools with the total taken after the slicing instead of before it
ListToolsOutcome_TotalAfterSlice(order, groupID, query, offset, limit) ==
    LET matched == FilterTools(order, groupID, query)
        page == PaginateTools(matched, offset, limit)
        arg == [groupID |-> groupID, query |-> query,
                offset |-> offset, limit |-> limit]
    IN  IF page.panic
        THEN Call("ListTools", arg, "panic", Nil, Nil, {})
        ELSE Call("ListTools", arg, "return",
                  Ptr([Items |-> page.items, Total |-> Len(page.items),
                       Offset |-> offset, Limit |-> limit]),
                  Nil, {})

\* ListTools(ctx, groupID, query, offset, limit), given the order in which
\* the range loop visits p.tools: what the caller gets
ListToolsOutcome(order, groupID, query, offset, limit) ==
    LET matched == FilterTools(order, groupID, query)
        total == Len(matched)
        page == PaginateTools(matched, offset, limit)
        arg == [groupID |-> groupID, query |-> query,
                offset |-> offset, limit |-> limit]
    IN  IF page.panic
        THEN Call("ListTools", arg, "panic", Nil, Nil, {})
        ELSE Call("ListTools", arg, "return",
                  Ptr([Items |-> page.items, Total |-> total,
                       Offset |-> offset, Limit |-> limit]),
                  Nil, {})

\* a call of ListTools
ListTools(groupID, query, offset, limit) ==
    /\ Idle
    /\ \E order \in RangeOrders(tools) :
           resp' = ListToolsOutcome(order, groupID, query, offset, limit)
    /\ UNCHANGED <<tools, executors, groups, fixed, hist>>

\* ListGroups, the filter loop: the groups appended, in visiting order
FilterGroups(order, parentID, query) ==
    LET all == [i \in 1..Len(order) |-> groups[order[i]]]
        Keep(group) ==
            /\ ~(parentID # "" /\ group.ParentID # parentID)
            /\ ~(query # <<>> /\ ~matchesQuery(group.Name, group.Description, query))
    IN  SelectSeq(all, Keep)

\* ListGroups, "Apply pagination"
PaginateGroups(matched, offset, limit) ==
    IF offset >= Len(matched)
    THEN [panic |-> FALSE, items |-> <<>>]
    ELSE LET end0 == IntAdd(offset, limit)
             end == IF limit = 0 \/ end0 > Len(matched) THEN Len(matched) ELSE end0
         IN  Slice(matched, offset, end)

\* ListGroups(ctx, parentID, query, offset, limit), given the order in which
\* the range loop visits p.groups: what the caller gets
ListGroupsOutcome(order, parentID, query, offset, limit) ==
    LET matched == FilterGroups(order, parentID, query)
        total == Len(matched)
        page == PaginateGroups(matched, offset, limit)
        arg == [groupID |-> parentID, query |-> query,
                offset |-> offset, limit |-> limit]
    IN  IF page.panic
        THEN Call("ListGroups", arg, "panic", Nil, Nil, {})
        ELSE Call("ListGroups", arg, "return",
                  Ptr([Items |-> page.items, Total |-> total,
                       Offset |-> offset, Limit |-> limit]),
                  Nil, {})

\* a call of ListGroups, a method of GroupProviderImpl only
ListGroups(parentID, query, offset, limit) ==
    /\ Idle
    /\ tier = "group"
    /\ \E order \in RangeOrders(groups) :
           resp' = ListGroupsOutcome(order, parentID, query, offset, limit)
    /\ UNCHANGED <<tools, executors, groups, fixed, hist>>

\* type ExecuteResponse struct
ExecuteResponse(result, error, meta) ==
    [Result |-> result, Error |-> error, Meta |-> meta]

\* the lookup matching names without regard to case
LookupExecutor_IgnoreCase(toolName) ==
    LET hits == { n \in DOMAIN executors : ToLower(n) = ToLower(toolName) }
    IN  IF hits # {}
        THEN [ok |-> TRUE, executor |-> executors[CHOOSE n \in hits : TRUE]]
        ELSE [ok |-> FALSE, executor |-> Executor("nil", Nil, Nil)]

\* ExecuteTool, the lookup `executor, ok := p.executors[toolName]`
LookupExecutor(toolName) ==
    IF toolName \in DOMAIN executors
    THEN [ok |-> TRUE, executor |-> executors[toolName]]
    ELSE [ok |-> FALSE, executor |-> Executor("nil", Nil, Nil)]

\* the executor call whose error response keeps the executor's value
RunExecutor_ErrorKeepsResult(toolName, executor) ==
    IF executor.kind = "nil"
    THEN Call("ExecuteTool", toolName, "panic", Nil, Nil, {})
    ELSE IF executor.kind = "panic"
    THEN Call("ExecuteTool", toolName, "panic", Nil, Nil, {toolName})
    ELSE IF executor.err # Nil
    THEN Call("ExecuteTool", toolName, "return",
              Ptr(ExecuteResponse(executor.value,
                      Ptr(ErrorDetail("execution_error",
                                      <<ErrorString(executor.err[1])>>)),
                      Nil)),
              Nil, {toolName})
    ELSE Call("ExecuteTool", toolName, "return",
              Ptr(ExecuteResponse(executor.value, Nil, Nil)),
              Nil, {toolName})

\* the executor call that reports the error only when no value came with it
RunExecutor_ValueWins(toolName, executor) ==
    IF executor.kind = "nil"
    THEN Call("ExecuteTool", toolName, "panic", Nil, Nil, {})
    ELSE IF executor.kind = "panic"
    THEN Call("ExecuteTool", toolName, "panic", Nil, Nil, {toolName})
    ELSE IF executor.err # Nil /\ executor.value = Nil
    THEN Call("ExecuteTool", toolName, "return",
              Ptr(ExecuteResponse(Nil,
                      Ptr(ErrorDetail("execution_error",
                                      <<ErrorString(executor.err[1])>>)),
                      Nil)),
              Nil, {toolName})
    ELSE Call("ExecuteTool", toolName, "return",
              Ptr(ExecuteResponse(executor.value, Nil, Nil)),
              Nil, {toolName})

\* ExecuteTool, from the call of the executor on: the outcome of the call
RunExecutor(toolName, executor) ==
    IF executor.kind = "nil"
    THEN \* call of a nil function value: nil-dereference panic, not recovered
         Call("ExecuteTool", toolName, "panic", Nil, Nil, {})
    ELSE IF executor.kind = "panic"
    THEN \* the executor panics; ExecuteTool has no recover
         Call("ExecuteTool", toolName, "panic", Nil, Nil, {toolName})
    ELSE IF executor.err # Nil
    THEN Call("ExecuteTool", toolName, "return",
              Ptr(ExecuteResponse(Nil,
                      Ptr(ErrorDetail("execution_error",
                                      <<ErrorString(executor.err[1])>>)),
                      Nil)),
              Nil, {toolName})
    ELSE Call("ExecuteTool", toolName, "return",
              Ptr(ExecuteResponse(executor.value, Nil, Nil)),
              Nil, {toolName})

\* ExecuteTool(ctx, toolName, params): what the caller gets.  params is
\* handed to the executor untouched; what the executor does with it is the
\* executor's kind.
ExecuteToolOutcome(toolName) ==
    LET found == LookupExecutor(toolName)
    IN  IF ~found.ok
        THEN Call("ExecuteTool", toolName, "return",
                  Ptr(ExecuteResponse(Nil,
                          Ptr(ErrorDetail("tool_not_found",
                                          <<"Tool not found: ">> \o toolName)),
                          Nil)),
                  Nil, {})
        ELSE RunExecutor(toolName, found.executor)

\* ExecuteTool that unregisters the executor of a tool whose run failed
ExecuteTool_DropsFailing(toolName) ==
    /\ Idle
    /\ resp' = ExecuteToolOutcome(toolName)
    /\ executors' =
           IF /\ resp'.ret # Nil
              /\ resp'.ret[1].Error # Nil
              /\ toolName \in DOMAIN executors
           THEN [n \in (DOMAIN executors) \ {toolName} |-> executors[n]]
           ELSE executors
    /\ UNCHANGED <<tools, groups, fixed, hist>>

\* a call of ExecuteTool
ExecuteTool(toolName) ==
    /\ Idle
    /\ resp' = ExecuteToolOutcome(toolName)
    /\ UNCHANGED <<tools, executors, groups, fixed, hist>>

\* a call of GetCapabilities: return p.capabilities
GetCapabilities ==
    /\ Idle
    /\ resp' = Call("GetCapabilities", << >>, "return", Ptr(capabilities), Nil, {})
    /\ UNCHANGED <<tools, executors, groups, fixed, hist>>

\* the caller repeats its ListTools call with the same arguments, nothing
\* having been registered in between
ListToolsAgain ==
    /\ resp.op = "ListTools"
    /\ \E order \in RangeOrders(tools) :
           resp' = ListToolsOutcome(order, resp.arg.groupID, resp.arg.query,
                                    resp.arg.offset, resp.arg.limit)
    /\ UNCHANGED <<tools, executors, groups, fixed, hist>>

\* GetGroup(ctx, groupID): what the caller gets
GetGroupOutcome(groupID) ==
    IF groupID \notin DOMAIN groups
    THEN Call("GetGroup", groupID, "return", Nil,
              Ptr(ErrorDetail("group_not_found", <<"Group not found: ", groupID>>)),
              {})
    ELSE Call("GetGroup", groupID, "return", Ptr(groups[groupID]), Nil, {})

\* a call of GetGroup, a method of GroupProviderImpl only
GetGroup(groupID) ==
    /\ Idle
    /\ tier = "group"
    /\ resp' = GetGroupOutcome(groupID)
    /\ UNCHANGED <<tools, executors, groups, fixed, hist>>

(***************************************************************************)
(* Meta responses                                                          *)
(***************************************************************************)
\* a Tool with its InputSchema
SchemaTool(name, description, schema, groupID) ==
    [Name |-> name, Description |-> description, InputSchema |-> schema,
     GroupID |-> groupID]

\* NewTool(name, description): the schema of a tool without properties
EmptySchema == [type |-> "object", properties |-> << >>, required |-> << >>]

\* NewMetaToolsAdded(tools...)
NewMetaToolsAdded(ts) == [Type |-> "tools_added", Data |-> [tools |-> ts]]

\* NewMetaGroupRefresh(groupIDs...)
NewMetaGroupRefresh(ids) == [Type |-> "group_refresh", Data |-> [group_ids |-> ids]]

\* NewExecuteResponse(result)
NewExecuteResponse(result) == ExecuteResponse(result, Nil, Nil)

\* NewExecuteError(code, message)
NewExecuteError(code, message) ==
    ExecuteResponse(Nil, Ptr(ErrorDetail(code, message)), Nil)

\* WithMeta that builds a fresh response around the result
WithMeta_DropsError(r, meta) == ExecuteResponse(r.Result, Nil, meta)

\* (r *ExecuteResponse) WithMeta(meta)
WithMeta(r, meta) == [r EXCEPT !.Meta = meta]

\* the tool sequences handed to NewMetaToolsAdded
MetaToolSeqs ==
    LET sub == SchemaTool(<<"s", "u", "b">>, <<"S", "u", "b">>,
                   [type |-> "object",
                    properties |-> [a |-> [type |-> "number", description |-> "First"]],
                    required |-> <<"a">>],
                   "math")
        neg == SchemaTool(<<"n", "e", "g">>, <<>>, EmptySchema, "")
    IN  { <<>>, <<sub>>, <<sub, neg>>, <<neg, sub>>, <<neg, neg>> }

\* the responses WithMeta is called on
MetaReceivers ==
    { NewExecuteResponse(Ptr("v1")),
      NewExecuteResponse(Nil),
      NewExecuteError("execution_error", <<"boom">>),
      WithMeta(NewExecuteResponse(Ptr("v1")), Ptr(NewMetaGroupRefresh(<<"math">>))) }

\* r.WithMeta(NewMetaToolsAdded(ts...))
AttachToolsAdded(r, ts) ==
    /\ Idle
    /\ resp' = Call("WithMeta", [r |-> r, tools |-> ts], "return",
                    Ptr(WithMeta(r, Ptr(NewMetaToolsAdded(ts)))), Nil, {})
    /\ UNCHANGED <<tools, executors, groups, fixed, hist>>

Next ==
    \/ Idle /\ \E in \in RegInputs : RegisterTool(in)
    \/ Idle /\ \E g \in GroupInputs : RegisterGroup(g)
    \/ Idle /\ \E g \in GroupArgs, q \in Queries, o \in PageInts, l \in PageInts :
                 ListTools(g, q, o, l)
    \/ Idle /\ \E g \in GroupArgs, q \in Queries, o \in PageInts, l \in PageInts :
                 ListGroups(g, q, o, l)
    \/ Idle /\ \E n \in ExecNames : ExecuteTool(n)
    \/ ListToolsAgain
    \/ Idle /\ \E g \in GroupArgs : GetGroup(g)
    \/ Idle /\ GetCapabilities
    \/ Idle /\ \E r \in MetaReceivers, ts \in MetaToolSeqs : AttachToolsAdded(r, ts)
    \/ Return

Spec == Init /\ [][Next]_vars

(***************************************************************************)
(* The HTTP server over a provider                                         *)
(*                                                                         *)
(* A server is built over a provider of either tier: a SimpleProvider      *)
(* (base tier only) or a GroupProviderImpl.  The handlers are the bodies   *)
(* of the usecases; a group route exists only if the capabilities declare  *)
(* groups.  Executors and tools are the ones of the shipped examples: an   *)
(* executor returns a value, which for discover_math_tools is a map with a *)
(* "meta" key, and ignores its context.                                    *)
(***************************************************************************)
\* the handlers' defaults for a limit of 0
DefaultToolsLimit == 100
DefaultGroupsLimit == 50

\* the value an example executor returns: what it computed and, when it
\* returns a map with a "meta" key, that key's value (Nil otherwise)
ResultMap(result, meta) == [result |-> result, meta |-> meta]

\* names of the tools of the server's provider
nAdd == <<"a", "d", "d">>
nUp == <<"u", "p">>
nDisc == <<"d", "i", "s", "c">>

\* what the discover_math_tools executor returns
DiscoverResult ==
    ResultMap("Discovered 1 new math tool",
              Ptr([type |-> "tools_added",
                   tools |-> << [name |-> <<"s", "u", "b">>,
                                 description |-> <<"S", "u", "b">>,
                                 group_id |-> "math"] >>]))

\* (tool, executor) pairs registered on the server's provider; NewTool and
\* RegisterTool take any name, the empty one included
ServerRegInputs ==
    { [tool |-> Tool(nAdd, <<>>, "math"),
       executor |-> Executor("return", Ptr(ResultMap("sum", Nil)), Nil)],
      [tool |-> Tool(nAdd, <<>>, "string"),
       executor |-> Executor("return", Nil, Ptr([desc |-> "boom"]))],
      [tool |-> Tool(nUp, <<>>, "string"),
       executor |-> Executor("return", Ptr(ResultMap("UP", Nil)), Nil)],
      [tool |-> Tool(nDisc, <<>>, "math"),
       executor |-> Executor("return", Ptr(DiscoverResult), Nil)],
      [tool |-> Tool(<<>>, <<"x">>, ""),
       executor |-> Executor("return", Ptr(ResultMap("anon", Nil)), Nil)] }

\* groups registered on the server's provider
ServerGroupInputs ==
    { Group("math", <<"M">>, <<>>, ""), Group("string", <<"S">>, <<>>, "math") }

\* the providers a server is built over: the constructor and the
\* capabilities handed to it
ServerProviders ==
    { [tier |-> "simple", declared |-> Nil],
      [tier |-> "simple", declared |-> Ptr(WithGroups(NewCapabilities, ""))],
      [tier |-> "group", declared |-> Nil],
      [tier |-> "group", declared |-> Ptr(NewCapabilities)],
      [tier |-> "group", declared |-> Ptr(WithGroups(NewCapabilities, "/custom"))] }

\* the state of a context handed to ExecuteTool
Contexts == {"live", "cancelled"}

\* request inputs
ServerNames == { nAdd, nUp, nDisc, <<>>, <<"z">> }
ServerGroupIDs == { "math", "string", "other" }
ServerQueries == { <<>>, <<"d">> }
ServerOffsets == { -1, 0, 1, 28 }
ServerLimits == { 0, 2 }

ListToolsInput ==
    [Q : ServerQueries, Offset : ServerOffsets, Limit : ServerLimits]
ListGroupsInput ==
    [Q : ServerQueries, ParentID : {"", "math"}, Offset : ServerOffsets,
     Limit : ServerLimits]
ExecuteToolInput == [Name : ServerNames]
ListGroupToolsInput ==
    [ID : ServerGroupIDs, Q : ServerQueries, Offset : ServerOffsets,
     Limit : ServerLimits]
ExecuteGroupToolInput == [ID : ServerGroupIDs, Name : ServerNames]

\* state after the provider's constructor has returned: the caller next
\* hands the provider to NewServer
InitServer ==
    /\ tools = << >>
    /\ executors = << >>
    /\ groups = << >>
    /\ \E p \in ServerProviders :
           /\ tier = p.tier
           /\ capabilities = IF p.tier = "group"
                             THEN NewGroupProvider(p.declared)
                             ELSE NewSimpleProvider(p.declared)
           /\ resp = Call(IF p.tier = "group" THEN "NewGroupProvider"
                                              ELSE "NewSimpleProvider",
                          p.declared, "return", Nil, Nil, {})
    /\ wpc = NoWriter
    /\ lastTool = << >>
    /\ lastGroup = << >>

\* a call of ExecuteTool with a context in the given state: neither
\* ExecuteTool nor the executors look at the context
ExecuteToolCtx(ctx, toolName) ==
    /\ Idle
    /\ resp' = [ExecuteToolOutcome(toolName) EXCEPT
                    !.op = "ExecuteToolCtx",
                    !.arg = [ctx |-> ctx, toolName |-> toolName]]
    /\ UNCHANGED <<tools, executors, groups, fixed, hist>>

\* a handler passes on what the provider method gave: "*output = *resp;
\* return nil", or the method's panic
Handled(op, input, method, out) ==
    [out EXCEPT !.op = op, !.arg = input, !.via = <<method>>]

\* return fmt.Errorf("groups not supported")
NotSupported(op, input) ==
    Call(op, input, "return", Nil, Ptr([desc |-> "groups not supported"]), {})

\* the type assertion s.provider.(GroupProvider)
IsGroupProvider == tier = "group"

\* registerRoutes: the group routes exist only if the capabilities say so
GroupRoutes == capabilities.Features.Groups

\* registerRoutes: the path the group routes are registered under
GroupsEndpoint == capabilities.Endpoints.Groups

\* listToolsUsecase
listToolsOutcome(order, input) ==
    LET limit == IF input.Limit = 0 THEN DefaultToolsLimit ELSE input.Limit
    IN  Handled("listTools", input, "ListTools",
                ListToolsOutcome(order, "", input.Q, input.Offset, limit))

listToolsUsecase(input) ==
    /\ Idle
    /\ \E order \in RangeOrders(tools) : resp' = listToolsOutcome(order, input)
    /\ UNCHANGED <<tools, executors, groups, fixed, hist>>

\* executeToolUsecase
executeToolOutcome(in) ==
    Handled("executeTool", in, "ExecuteTool", ExecuteToolOutcome(in.Name))

executeToolUsecase(in) ==
    /\ Idle
    /\ resp' = executeToolOutcome(in)
    /\ UNCHANGED <<tools, executors, groups, fixed, hist>>

\* listGroupsUsecase
listGroupsOutcome(order, input) ==
    IF ~IsGroupProvider
    THEN NotSupported("listGroups", input)
    ELSE LET limit == IF input.Limit = 0 THEN DefaultGroupsLimit ELSE input.Limit
         IN  Handled("listGroups", input, "ListGroups",
                     ListGroupsOutcome(order, input.ParentID, input.Q,
                                       input.Offset, limit))

listGroupsUsecase(input) ==
    /\ Idle
    /\ GroupRoutes
    /\ \E order \in RangeOrders(groups) : resp' = listGroupsOutcome(order, input)
    /\ UNCHANGED <<tools, executors, groups, fixed, hist>>

\* listGroupToolsUsecase
listGroupToolsOutcome(order, input) ==
    IF ~IsGroupProvider
    THEN NotSupported("listGroupTools", input)
    ELSE LET limit == IF input.Limit = 0 THEN DefaultToolsLimit ELSE input.Limit
         IN  Handled("listGroupTools", input, "ListTools",
                     ListToolsOutcome(order, input.ID, input.Q, input.Offset,
                                      limit))

listGroupToolsUsecase(input) ==
    /\ Idle
    /\ GroupRoutes
    /\ \E order \in RangeOrders(tools) :
           resp' = listGroupToolsOutcome(order, input)
    /\ UNCHANGED <<tools, executors, groups, fixed, hist>>

\* executeGroupToolUsecase that takes the declared capabilities for the tier
executeGroupToolOutcome_TrustsCapabilities(in) ==
    IF ~capabilities.Features.Groups
    THEN NotSupported("executeGroupTool", in)
    ELSE Handled("executeGroupTool", in, "ExecuteTool",
                 ExecuteToolOutcome(in.Name))

\* executeGroupToolUsecase: in.ID is not looked at
executeGroupToolOutcome(in) ==
    IF ~IsGroupProvider
    THEN NotSupported("executeGroupTool", in)
    ELSE Handled("executeGroupTool", in, "ExecuteTool",
                 ExecuteToolOutcome(in.Name))

executeGroupToolUsecase(in) ==
    /\ Idle
    /\ GroupRoutes
    /\ resp' = executeGroupToolOutcome(in)
    /\ UNCHANGED <<tools, executors, groups, fixed, hist>>

NextServer ==
    \/ Idle /\ \E in \in ServerRegInputs : RegisterTool(in)
    \/ Idle /\ \E g \in ServerGroupInputs : RegisterGroup(g)
    \/ Idle /\ \E c \in Contexts, n \in ServerNames : ExecuteToolCtx(c, n)
    \/ Idle /\ \E input \in ListToolsInput : listToolsUsecase(input)
    \/ Idle /\ \E in \in ExecuteToolInput : executeToolUsecase(in)
    \/ Idle /\ \E input \in ListGroupsInput : listGroupsUsecase(input)
    \/ Idle /\ \E input \in ListGroupToolsInput : listGroupToolsUsecase(input)
    \/ Idle /\ \E in \in ExecuteGroupToolInput : executeGroupToolUsecase(in)
    \/ Return

SpecServer == InitServer /\ [][NextServer]_vars

(***************************************************************************)
(* A server over a catalog larger than the handlers' default limits        *)
(*                                                                         *)
(* Groups and tools are registered one after the other, all tools in the   *)
(* group "math", all groups at the top level.  A listing is followed in    *)
(* two of the orders the range loop may take: the registration order and   *)
(* its reverse.                                                            *)
(***************************************************************************)
\* how many tools and groups are registered at most
CatalogTools == 101
CatalogGroups == 51

Digits == <<"0", "1", "2", "3", "4", "5", "6", "7", "8", "9">>

\* the name of the i-th tool and the id of the i-th group
CatalogName(i) ==
    <<"t", Digits[(i \div 100) + 1], Digits[((i \div 10) % 10) + 1],
      Digits[(i % 10) + 1]>>
CatalogID(i) == CatalogName(i)

CatalogTool(i) ==
    [tool |-> Tool(CatalogName(i), <<>>, "math"),
     executor |-> Executor("return", Ptr("v1"), Nil)]
CatalogGroup(i) == Group(CatalogID(i), <<"G">>, <<>>, "")

\* registration order and its reverse, over the first n names
CatalogOrders(n) ==
    { [i \in 1..n |-> CatalogName(i)], [i \in 1..n |-> CatalogName(n + 1 - i)] }

CatalogListToolsInput == [Q : {<<>>}, Offset : {0, 1}, Limit : {0, 2}]
CatalogListGroupsInput ==
    [Q : {<<>>}, ParentID : {""}, Offset : {0, 1}, Limit : {0, 2}]
CatalogListGroupToolsInput ==
    [ID : {"math"}, Q : {<<>>}, Offset : {0, 1}, Limit : {0, 2}]

\* the next tool is registered
RegisterNextTool ==
    /\ Cardinality(DOMAIN tools) < CatalogTools
    /\ RegisterTool(CatalogTool(Cardinality(DOMAIN tools) + 1))

\* the next group is registered; as in the examples, groups come first
RegisterNextGroup ==
    /\ tools = << >>
    /\ Cardinality(DOMAIN groups) < CatalogGroups
    /\ RegisterGroup(CatalogGroup(Cardinality(DOMAIN groups) + 1))

\* GET {tools_endpoint}
CatalogListTools(order, input) ==
    /\ Idle
    /\ resp' = listToolsOutcome(order, input)
    /\ UNCHANGED <<tools, executors, groups, fixed, hist>>

\* GET {groups_endpoint}
CatalogListGroups(order, input) ==
    /\ Idle
    /\ GroupRoutes
    /\ resp' = listGroupsOutcome(order, input)
    /\ UNCHANGED <<tools, executors, groups, fixed, hist>>

\* GET {groups_endpoint}/{id}/tools
CatalogListGroupTools(order, input) ==
    /\ Idle
    /\ GroupRoutes
    /\ resp' = listGroupToolsOutcome(order, input)
    /\ UNCHANGED <<tools, executors, groups, fixed, hist>>

NextCatalog ==
    \/ Idle /\ RegisterNextTool
    \/ Idle /\ RegisterNextGroup
    \/ Idle /\ \E order \in CatalogOrders(Cardinality(DOMAIN tools)),
                    input \in CatalogListToolsInput :
                        CatalogListTools(order, input)
    \/ Idle /\ \E order \in CatalogOrders(Cardinality(DOMAIN groups)),
                    input \in CatalogListGroupsInput :
                        CatalogListGroups(order, input)
    \/ Idle /\ \E order \in CatalogOrders(Cardinality(DOMAIN tools)),
                    input \in CatalogListGroupToolsInput :
                        CatalogListGroupTools(order, input)
    \/ Return

SpecCatalog == Init /\ [][NextCatalog]_vars

(***************************************************************************)
(* RegisterTool in one goroutine, reads in another                         *)
(*                                                                         *)
(* SimpleProvider has no lock.  RegisterTool is two map assignments, and a *)
(* read in another goroutine may come before, between or after them.  A    *)
(* read of a map while that map is being assigned to is a data race: it    *)
(* sees the map without or with the new entry, or the runtime stops the    *)
(* process with "fatal error: concurrent map read and map write".          *)
(*   wpc.at = "tools"     : the writer is in p.tools[tool.Name] = tool     *)
(*   wpc.at = "executors" : p.tools is written, the writer is in           *)
(*                          p.executors[tool.Name] = executor              *)
(***************************************************************************)
\* arguments of the concurrent listings: the catalog, whole or by pages
ConcListArgs ==
    [groupID : {"", "math"}, query : {<<>>}, offset : {0, 1}, limit : {0, 1}]

\* the runtime's fatal error: the process is gone, nothing is returned
Fatal(op, arg) == Call(op, arg, "fatal", Nil, Nil, {})

\* another goroutine enters RegisterTool(tool, executor)
BeginRegisterTool(in) ==
    /\ wpc.at = "idle"
    /\ resp.outcome # "fatal"
    /\ wpc' = [at |-> "tools", in |-> Ptr(in)]
    /\ UNCHANGED <<tools, executors, groups, resp, tier, capabilities, hist>>

\* p.tools[tool.Name] = tool
WriteTools ==
    /\ wpc.at = "tools"
    /\ resp.outcome # "fatal"
    /\ tools' = MapSet(tools, wpc.in[1].tool.Name, wpc.in[1].tool)
    /\ wpc' = [wpc EXCEPT !.at = "executors"]
    /\ UNCHANGED <<executors, groups, resp, tier, capabilities, hist>>

\* p.executors[tool.Name] = executor, and RegisterTool returns
WriteExecutors ==
    /\ wpc.at = "executors"
    /\ resp.outcome # "fatal"
    /\ executors' = MapSet(executors, wpc.in[1].tool.Name, wpc.in[1].executor)
    /\ wpc' = NoWriter
    /\ lastTool' = [n \in (DOMAIN lastTool) \cup {wpc.in[1].tool.Name} |->
                        IF n = wpc.in[1].tool.Name THEN wpc.in[1] ELSE lastTool[n]]
    /\ UNCHANGED <<tools, groups, resp, tier, capabilities, lastGroup>>

\* ListTools in the reading goroutine
ConcListTools(a) ==
    /\ Idle
    /\ \/ \E order \in RangeOrders(tools) :
              resp' = ListToolsOutcome(order, a.groupID, a.query, a.offset, a.limit)
       \/ /\ wpc.at = "tools"
          /\ resp' = Fatal("ListTools", a)
    /\ UNCHANGED <<tools, executors, groups, fixed, hist>>

\* ExecuteTool in the reading goroutine, first thing or right after a listing
ConcExecuteTool(toolName) ==
    /\ resp.op \in {"none", "ListTools"}
    /\ resp.outcome = "return"
    /\ \/ resp' = ExecuteToolOutcome(toolName)
       \/ /\ wpc.at = "executors"
          /\ resp' = Fatal("ExecuteTool", toolName)
    /\ UNCHANGED <<tools, executors, groups, fixed, hist>>

\* the reading goroutine takes its answer; after a fatal error there is none
ConcReturn ==
    /\ resp.outcome # "fatal"
    /\ Return

NextConc ==
    \/ \E in \in RegInputs : BeginRegisterTool(in)
    \/ WriteTools
    \/ WriteExecutors
    \/ Idle /\ \E a \in ConcListArgs : ConcListTools(a)
    \/ \E n \in ExecNames : ConcExecuteTool(n)
    \/ ConcReturn

SpecConc == Init /\ [][NextConc]_vars

(***************************************************************************)
(* Vocabulary of the properties                                            *)
(***************************************************************************)
IsListing == resp.op \in {"ListTools", "ListGroups"}

Returned == resp.outcome = "return" /\ resp.ret # Nil

Min(a, b) == IF a <= b THEN a ELSE b

Max(a, b) == IF a >= b THEN a ELSE b

\* sub occurs in s: s = pre \o sub \o post for some pre and post
IsSubstring(sub, s) ==
    \E i \in 0..Len(s) : \E j \in i..Len(s) : SubSeq(s, i + 1, j) = sub

\* the search semantics of the specification
QueryAccepts(name, description, query) ==
    \/ query = <<>>
    \/ IsSubstring(ToLower(query), ToLower(name))
    \/ IsSubstring(ToLower(query), ToLower(description))

\* the registered items a listing ranges over, and the field its
\* group / parent argument is compared with
Registered(op) ==
    IF op = "ListTools" THEN { tools[n] : n \in DOMAIN tools }
                        ELSE { groups[g] : g \in DOMAIN groups }

ScopeOf(op, item) == IF op = "ListTools" THEN item.GroupID ELSE item.ParentID

\* the registered items that pass the filters of the listing in resp
Matching ==
    { it \in Registered(resp.op) :
        /\ resp.arg.groupID = "" \/ ScopeOf(resp.op, it) = resp.arg.groupID
        /\ QueryAccepts(it.Name, it.Description, resp.arg.query) }

SeqRange(s) == { s[i] : i \in 1..Len(s) }

(***************************************************************************)
(* C1: for non-negative offset and limit a listing returns a page of       *)
(* length min(max(total-offset, 0), L), L being the items left from offset *)
(* when limit = 0 and limit otherwise.  (total-offset is read as floored   *)
(* at 0: a page has no negative length.)  The code breaks it when          *)
(* offset+limit overflows int: end wraps negative and the slice panics.    *)
(***************************************************************************)
C1_PageLength ==
    (IsListing /\ resp.arg.offset >= 0 /\ resp.arg.limit >= 0) =>
        /\ Returned
        /\ LET total == resp.ret[1].Total
               left == Max(total - resp.arg.offset, 0)
               L == IF resp.arg.limit = 0 THEN left ELSE resp.arg.limit
           IN  Len(resp.ret[1].Items) = Min(left, L)

(***************************************************************************)
(* C2: the Total of a returned listing is the number of registered items   *)
(* passing the group/parent filter and the query, whatever offset and      *)
(* limit are; with offset >= that number the call returns an empty page    *)
(* and still that Total.                                                   *)
(***************************************************************************)
C2_TotalIsMatchCount ==
    IsListing =>
        /\ Returned => resp.ret[1].Total = Cardinality(Matching)
        /\ resp.arg.offset >= Cardinality(Matching) =>
               /\ Returned
               /\ resp.ret[1].Items = <<>>
               /\ resp.ret[1].Total = Cardinality(Matching)

\* a filtered listing of two matches out of three tools, asked from offset 3
C2_Witness ==
    /\ resp.op = "ListTools"
    /\ Returned
    /\ Cardinality(DOMAIN tools) = 3
    /\ resp.arg.groupID = "math"
    /\ resp.arg.query = <<"a">>
    /\ resp.arg.offset = 3
    /\ resp.ret[1].Total = 2
    /\ resp.ret[1].Items = <<>>

(***************************************************************************)
(* C3: a listing called with a negative offset or a negative limit is      *)
(* rejected with an error: it returns a non-nil error, it does not panic   *)
(* and it does not return a page.                                          *)
(***************************************************************************)
C3_NegativeRejected ==
    (IsListing /\ (resp.arg.offset < 0 \/ resp.arg.limit < 0)) =>
        /\ resp.outcome = "return"
        /\ resp.err # Nil
        /\ resp.ret = Nil

(***************************************************************************)
(* C4: a listing with a non-empty query includes an item (that passes the  *)
(* group/parent filter) iff the lower-cased query is a substring of the    *)
(* item's lower-cased name or lower-cased description; with the empty      *)
(* query it includes every such item.  Every returned page holds accepted  *)
(* items only, and the unpaginated listing holds all of them.              *)
(***************************************************************************)
C4_QueryInclusion ==
    (IsListing /\ Returned) =>
        /\ \A it \in SeqRange(resp.ret[1].Items) :
               QueryAccepts(it.Name, it.Description, resp.arg.query)
        /\ (resp.arg.offset = 0 /\ resp.arg.limit = 0) =>
               \A it \in Registered(resp.op) :
                   (resp.arg.groupID = "" \/ ScopeOf(resp.op, it) = resp.arg.groupID)
                   => ( it \in SeqRange(resp.ret[1].Items)
                        <=> QueryAccepts(it.Name, it.Description, resp.arg.query) )

\* query "AD" over three tools: "Ad" is included for its name, "B" for its
\* description "ad", "ab" is left out
C4_Witness ==
    /\ resp.op = "ListTools"
    /\ Returned
    /\ resp.arg = [groupID |-> "", query |-> <<"A", "D">>, offset |-> 0, limit |-> 0]
    /\ DOMAIN tools = {nAd, nab, nB}
    /\ SeqRange(resp.ret[1].Items) = {tools[nAd], tools[nB]}
    /\ tools[nB].Description = <<"a", "d">>

(***************************************************************************)
(* C5: ListTools with a non-empty group_id, offset 0 and limit 0 returns   *)
(* exactly the registered tools whose GroupID is that group_id and that    *)
(* match the query, each once; with the empty group_id it returns exactly  *)
(* the registered tools that match the query, whatever their group.        *)
(***************************************************************************)
C5_GroupFilter ==
    (resp.op = "ListTools" /\ resp.arg.offset = 0 /\ resp.arg.limit = 0) =>
        LET g == resp.arg.groupID
            expected ==
                { n \in DOMAIN tools :
                    /\ g # "" => tools[n].GroupID = g
                    /\ QueryAccepts(n, tools[n].Description, resp.arg.query) }
        IN  /\ Returned
            /\ { it.Name : it \in SeqRange(resp.ret[1].Items) } = expected
            /\ \A it \in SeqRange(resp.ret[1].Items) : it = tools[it.Name]
            /\ Len(resp.ret[1].Items) = Cardinality(expected)

\* group "math" asked of a provider that also holds tools of other groups
C5_Witness ==
    /\ resp.op = "ListTools"
    /\ Returned
    /\ resp.arg = [groupID |-> "math", query |-> <<>>, offset |-> 0, limit |-> 0]
    /\ Cardinality(DOMAIN tools) = 3
    /\ Len(resp.ret[1].Items) = 1
    /\ \E n \in DOMAIN tools : tools[n].GroupID = "string"
    /\ \E n \in DOMAIN tools : tools[n].GroupID = ""

(***************************************************************************)
(* C6: ListTools with a group_id that no registered tool and no registered *)
(* group carries returns, for every query and all non-negative offset and  *)
(* limit, an empty page with Total 0 and a nil error.                      *)
(***************************************************************************)
C6_UnknownGroupEmpty ==
    ( /\ resp.op = "ListTools"
      /\ resp.arg.groupID # ""
      /\ \A n \in DOMAIN tools : tools[n].GroupID # resp.arg.groupID
      /\ resp.arg.groupID \notin DOMAIN groups
      /\ resp.arg.offset >= 0
      /\ resp.arg.limit >= 0 ) =>
        /\ Returned
        /\ resp.err = Nil
        /\ resp.ret[1].Items = <<>>
        /\ resp.ret[1].Total = 0

\* an unknown group asked, from offset 2, of a provider holding tools
C6_Witness ==
    /\ resp.op = "ListTools"
    /\ Returned
    /\ resp.arg = [groupID |-> "other", query |-> <<>>, offset |-> 2, limit |-> 1]
    /\ Cardinality(DOMAIN tools) = 3
    /\ DOMAIN groups # {}
    /\ resp.ret[1].Total = 0

(***************************************************************************)
(* C7: ExecuteTool with a name that was never registered returns, with a   *)
(* nil Go error, a response whose Error.Code is "tool_not_found" and whose *)
(* Result is unset, and invokes no executor.  (The registry only grows, so *)
(* the names ever registered are the keys of tools.)                       *)
(***************************************************************************)
C7_ToolNotFound ==
    (resp.op = "ExecuteTool" /\ resp.arg \notin DOMAIN tools) =>
        /\ Returned
        /\ resp.err = Nil
        /\ resp.ret[1].Error # Nil
        /\ resp.ret[1].Error[1].Code = "tool_not_found"
        /\ resp.ret[1].Result = Nil
        /\ resp.ran = {}

\* "ad" executed on a provider that holds "Ad"
C7_Witness ==
    /\ resp.op = "ExecuteTool"
    /\ resp.arg = <<"a", "d">>
    /\ nAd \in DOMAIN executors
    /\ Returned
    /\ resp.ret[1].Error # Nil

(***************************************************************************)
(* C8: when the executor registered under the requested name returns an    *)
(* error, ExecuteTool returns, with a nil Go error, a response whose       *)
(* Error.Code is "execution_error", whose Error.Message is the error's     *)
(* description and whose Result is unset, also when the executor returned  *)
(* a value along with the error.                                           *)
(***************************************************************************)
C8_ExecutionError ==
    ( /\ resp.op = "ExecuteTool"
      /\ resp.arg \in DOMAIN executors
      /\ executors[resp.arg].kind = "return"
      /\ executors[resp.arg].err # Nil ) =>
        /\ Returned
        /\ resp.err = Nil
        /\ resp.ret[1].Error # Nil
        /\ resp.ret[1].Error[1].Code = "execution_error"
        /\ resp.ret[1].Error[1].Message = <<executors[resp.arg].err[1].desc>>
        /\ resp.ret[1].Result = Nil

\* the executor returned a value and an error
C8_Witness ==
    /\ resp.op = "ExecuteTool"
    /\ resp.arg \in DOMAIN executors
    /\ executors[resp.arg].kind = "return"
    /\ executors[resp.arg].err # Nil
    /\ executors[resp.arg].value # Nil
    /\ Returned
    /\ resp.ran = {resp.arg}

(***************************************************************************)
(* C9: however the executor registered under the requested name fails (it  *)
(* returns an error, it panics, or it is the nil function), ExecuteTool    *)
(* returns a response with Error.Code "execution_error".  The code has no  *)
(* recover: a panicking or nil executor makes ExecuteTool panic.           *)
(***************************************************************************)
C9_NoFaultEscapes ==
    ( /\ resp.op = "ExecuteTool"
      /\ resp.arg \in DOMAIN executors
      /\ \/ executors[resp.arg].kind \in {"panic", "nil"}
         \/ executors[resp.arg].err # Nil ) =>
        /\ Returned
        /\ resp.ret[1].Error # Nil
        /\ resp.ret[1].Error[1].Code = "execution_error"

(***************************************************************************)
(* C10, as claimed: every response returned by ExecuteTool has exactly one *)
(* of Result and Error populated; Error is set exactly when the tool was   *)
(* not found or the executor returned an error, Result is set exactly when *)
(* the executor succeeded.                                                 *)
(***************************************************************************)
C10_ExactlyOne ==
    (resp.op = "ExecuteTool" /\ Returned) =>
        LET r == resp.ret[1]
            found == resp.arg \in DOMAIN executors
            failed == found /\ executors[resp.arg].err # Nil
            succeeded == found /\ executors[resp.arg].err = Nil
        IN  /\ (r.Error # Nil) <=> (~found \/ failed)
            /\ (r.Result # Nil) <=> succeeded
            /\ (r.Result # Nil) # (r.Error # Nil)

(***************************************************************************)
(* C10, amended: every response returned by ExecuteTool has at most one of *)
(* Result and Error populated; Error is set exactly when the tool was not  *)
(* found or the executor returned an error, and Result is then unset; when *)
(* the executor succeeded Result is the executor's value, so Result is set *)
(* exactly when the executor succeeded with a non-nil value.               *)
(***************************************************************************)
C10_AtMostOne ==
    (resp.op = "ExecuteTool" /\ Returned) =>
        LET r == resp.ret[1]
            found == resp.arg \in DOMAIN executors
            failed == found /\ executors[resp.arg].err # Nil
            succeeded == found /\ executors[resp.arg].err = Nil
        IN  /\ (r.Error # Nil) <=> (~found \/ failed)
            /\ succeeded => r.Result = executors[resp.arg].value
            /\ (r.Result # Nil) <=> (succeeded /\ executors[resp.arg].value # Nil)
            /\ ~(r.Result # Nil /\ r.Error # Nil)

\* an executor that succeeds with a nil value: neither field is populated
C10_Witness ==
    /\ resp.op = "ExecuteTool"
    /\ Returned
    /\ resp.ran = {resp.arg}
    /\ resp.ret[1].Result = Nil
    /\ resp.ret[1].Error = Nil

(***************************************************************************)
(* C12: for every sequence of tools, NewMetaToolsAdded(tools...) attached  *)
(* with WithMeta yields a response whose Meta has type "tools_added" and   *)
(* whose Meta data "tools" is the given sequence (same tools, same order,  *)
(* same name, description and schema), the response's Result and Error     *)
(* being left as they were.                                                *)
(***************************************************************************)
C12_ToolsAddedRoundTrip ==
    resp.op = "WithMeta" =>
        /\ Returned
        /\ resp.ret[1].Meta # Nil
        /\ resp.ret[1].Meta[1].Type = "tools_added"
        /\ LET got == resp.ret[1].Meta[1].Data.tools
               given == resp.arg.tools
           IN  /\ Len(got) = Len(given)
               /\ \A i \in 1..Len(given) :
                      /\ got[i].Name = given[i].Name
                      /\ got[i].Description = given[i].Description
                      /\ got[i].InputSchema = given[i].InputSchema
                      /\ got[i] = given[i]
        /\ resp.ret[1].Result = resp.arg.r.Result
        /\ resp.ret[1].Error = resp.arg.r.Error

\* two different tools attached, in that order, to an error response
C12_Witness ==
    /\ resp.op = "WithMeta"
    /\ resp.arg.r.Error # Nil
    /\ Len(resp.arg.tools) = 2
    /\ resp.arg.tools[1] # resp.arg.tools[2]
    /\ resp.arg.tools[1].InputSchema # EmptySchema
    /\ Returned
    /\ resp.ret[1].Meta # Nil

(***************************************************************************)
(* C13: GetGroup returns an error with code "group_not_found" and no group *)
(* exactly when no group was registered under the id; for a registered id  *)
(* it returns the group of the latest registration under it and a nil      *)
(* error.                                                                  *)
(***************************************************************************)
C13_GetGroup ==
    resp.op = "GetGroup" =>
        /\ resp.outcome = "return"
        /\ (resp.arg \notin DOMAIN lastGroup) <=>
               (resp.ret = Nil /\ resp.err # Nil)
        /\ resp.err # Nil => resp.err[1].Code = "group_not_found"
        /\ (resp.arg \in DOMAIN lastGroup) =>
               (resp.ret = Ptr(lastGroup[resp.arg]) /\ resp.err = Nil)

\* "math" was registered again with another parent, and is looked up
C13_Witness ==
    /\ resp.op = "GetGroup"
    /\ resp.arg = "math"
    /\ resp.ret # Nil
    /\ resp.ret[1].ParentID = "string"
    /\ resp.err = Nil

(***************************************************************************)
(* C16: two ListTools calls with the same arguments and no registration    *)
(* in between return the same page (same tools, same order) and the same   *)
(* total.  The code ranges over a Go map, whose order changes from one     *)
(* loop to the next, so the pages differ.                                  *)
(***************************************************************************)
C16_ListToolsIdempotent ==
    [][ ( /\ resp.op = "ListTools"
          /\ resp'.op = "ListTools"
          /\ resp'.arg = resp.arg
          /\ tools' = tools )
        => resp'.outcome = resp.outcome /\ resp'.ret = resp.ret ]_vars

(***************************************************************************)
(* C14: after any sequence of RegisterTool calls, the unfiltered,          *)
(* unlimited ListTools holds exactly one tool per registered name, the one *)
(* of the latest registration under that name; ExecuteTool of a registered *)
(* name runs the executor of the latest registration; and RegisterTool     *)
(* never fails.                                                            *)
(***************************************************************************)
C14_LastRegistrationWins ==
    /\ resp.op = "RegisterTool" => resp.outcome = "return" /\ resp.err = Nil
    /\ ( /\ resp.op = "ListTools"
         /\ resp.arg = [groupID |-> "", query |-> <<>>, offset |-> 0, limit |-> 0] )
       => /\ Returned
          /\ Len(resp.ret[1].Items) = Cardinality(DOMAIN lastTool)
          /\ SeqRange(resp.ret[1].Items) =
                 { lastTool[n].tool : n \in DOMAIN lastTool }
          /\ resp.ret[1].Total = Cardinality(DOMAIN lastTool)
    /\ (resp.op = "ExecuteTool" /\ resp.arg \in DOMAIN lastTool)
       => resp = RunExecutor(resp.arg, lastTool[resp.arg].executor)

\* the executor of the second registration offered for "Ad" has run
C14_Witness ==
    /\ resp.op = "ExecuteTool"
    /\ resp.arg = nAd
    /\ nAd \in DOMAIN lastTool
    /\ lastTool[nAd].tool.GroupID = "string"
    /\ resp.ran = {nAd}
    /\ Returned
    /\ resp.ret[1].Error # Nil

(***************************************************************************)
(* C11: when a tool that ran successfully signals that it changed the      *)
(* catalog (its result announces "tools_added", as the result of the       *)
(* discover_math_tools executor does), the ExecuteResponse carries a       *)
(* non-nil Meta of that type with the announced tools.  ExecuteTool copies *)
(* the executor's value into Result and never sets Meta.                   *)
(***************************************************************************)
SignalsToolsAdded(r) ==
    /\ r.Error = Nil
    /\ r.Result # Nil
    /\ r.Result[1].meta # Nil
    /\ r.Result[1].meta[1].type = "tools_added"

C11_MetaAttached ==
    ( /\ resp.op \in {"ExecuteToolCtx", "executeTool", "executeGroupTool"}
      /\ Returned
      /\ SignalsToolsAdded(resp.ret[1]) )
    => /\ resp.ret[1].Meta # Nil
       /\ resp.ret[1].Meta[1].Type = "tools_added"
       /\ LET announced == resp.ret[1].Result[1].meta[1].tools
              attached == resp.ret[1].Meta[1].Data.tools
          IN  /\ Len(attached) = Len(announced)
              /\ \A i \in 1..Len(announced) :
                     attached[i].Name = announced[i].name

(***************************************************************************)
(* C15: a group handler (list groups, list group tools, execute group      *)
(* tool) of a server whose provider has the base tier only answers with    *)
(* the error "groups not supported", calls no provider method, runs no     *)
(* executor and does not panic, also when the capabilities declare groups. *)
(***************************************************************************)
C15_GroupsNotSupported ==
    ( /\ resp.op \in {"listGroups", "listGroupTools", "executeGroupTool"}
      /\ tier = "simple" )
    => /\ resp.outcome = "return"
       /\ resp.ret = Nil
       /\ resp.err = Ptr([desc |-> "groups not supported"])
       /\ resp.via = << >>
       /\ resp.ran = {}

\* base-tier provider declaring groups, asked to run a tool it holds
\* through the group route
C15_Witness ==
    /\ tier = "simple"
    /\ capabilities.Features.Groups
    /\ resp.op = "executeGroupTool"
    /\ resp.arg.Name \in DOMAIN executors
    /\ resp.err # Nil

(***************************************************************************)
(* C18: in every state reached through RegisterTool, every tool the        *)
(* provider holds has a non-empty name, and no two held tools have the     *)
(* same name.  RegisterTool stores a tool under whatever name it has.      *)
(***************************************************************************)
C18_NamesNonEmptyUnique ==
    \A n \in DOMAIN tools :
        /\ tools[n].Name # << >>
        /\ \A m \in DOMAIN tools : tools[m].Name = tools[n].Name => m = n

(***************************************************************************)
(* C19: executing through the group route {id}/tools/{name} runs the       *)
(* executor of {name} only if that tool's GroupID is {id}; otherwise the   *)
(* response is a "tool_not_found" error.  The handler does not look at     *)
(* {id}.                                                                   *)
(***************************************************************************)
C19_GroupScopedExecution ==
    (resp.op = "executeGroupTool" /\ tier = "group")
    => LET scoped == /\ resp.arg.Name \in DOMAIN tools
                     /\ tools[resp.arg.Name].GroupID = resp.arg.ID
       IN  /\ resp.ran # {} => scoped
           /\ ~scoped => /\ Returned
                         /\ resp.ret[1].Error # Nil
                         /\ resp.ret[1].Error[1].Code = "tool_not_found"

(***************************************************************************)
(* C20: a call of ExecuteTool whose context is already cancelled does not  *)
(* return the executor's result as Result, and leaves the tools and the    *)
(* executors as they were.  ExecuteTool never looks at its context.        *)
(***************************************************************************)
C20_CancelledNoResult ==
    [][ (resp'.op = "ExecuteToolCtx" /\ resp'.arg.ctx = "cancelled")
        => /\ ~(resp'.ret # Nil /\ resp'.ret[1].Result # Nil)
           /\ tools' = tools
           /\ executors' = executors ]_vars

(***************************************************************************)
(* C17: while a RegisterTool runs in another goroutine, every read sees a  *)
(* consistent registry: a name that a ListTools result contains is not     *)
(* answered "tool_not_found" by an ExecuteTool started after that listing, *)
(* and no read runs into a registry write.  The two maps are written one   *)
(* after the other without a lock.                                         *)
(***************************************************************************)
C17_ListedIsExecutable ==
    [][ ( /\ resp.op = "ListTools"
          /\ Returned
          /\ resp'.op = "ExecuteTool"
          /\ \E i \in 1..Len(resp.ret[1].Items) :
                 resp.ret[1].Items[i].Name = resp'.arg )
        => /\ resp'.outcome # "fatal"
           /\ ~( /\ resp'.ret # Nil
                 /\ resp'.ret[1].Error # Nil
                 /\ resp'.ret[1].Error[1].Code = "tool_not_found" ) ]_vars

(***************************************************************************)
(* C21: "0 means unlimited" holds end to end: a list-tools,                *)
(* list-group-tools or list-groups request that reaches the handler with   *)
(* limit 0 is answered with all matching items from offset onward.  The    *)
(* handlers replace a limit of 0 by their default (100 for tools, 50 for   *)
(* groups) before they call the provider.                                  *)
(***************************************************************************)
C21_ZeroMeansUnlimited ==
    ( /\ resp.op \in {"listTools", "listGroupTools", "listGroups"}
      /\ resp.arg.Limit = 0
      /\ resp.arg.Offset >= 0
      /\ Returned )
    => Len(resp.ret[1].Items) = Max(resp.ret[1].Total - resp.arg.Offset, 0)

(***************************************************************************)
(* C22: a groups endpoint declared in the Capabilities handed to           *)
(* NewGroupProvider (WithGroups("/custom")) is preserved: after the        *)
(* construction GetCapabilities().Endpoints.Groups is the declared path,   *)
(* the server registers its group routes under it, and nothing else of the *)
(* caller's Capabilities has changed except that features.groups is on.    *)
(* NewGroupProvider calls WithGroups(""), which sets the endpoint anew.    *)
(***************************************************************************)
C22_DeclaredEndpointKept ==
    ( /\ resp.op = "NewGroupProvider"
      /\ resp.arg # Nil
      /\ resp.arg[1].Endpoints.Groups # "" )
    => /\ capabilities.Endpoints.Groups = resp.arg[1].Endpoints.Groups
       /\ GroupsEndpoint = resp.arg[1].Endpoints.Groups
       /\ capabilities = [resp.arg[1] EXCEPT !.Features.Groups = TRUE]

(***************************************************************************)
(* C23: ListTools, ExecuteTool (whether the tool is not found, its         *)
(* executor fails or succeeds), ListGroups, GetGroup and GetCapabilities   *)
(* leave the tools, the executors, the groups and the capabilities as they *)
(* are; only RegisterTool and RegisterGroup change the registry, and each  *)
(* changes only the entry under the given name or id.                      *)
(***************************************************************************)
C23_Frame ==
    [][ /\ resp'.op \in {"ListTools", "ExecuteTool", "ListGroups", "GetGroup",
                         "GetCapabilities"}
           => /\ tools' = tools
              /\ executors' = executors
              /\ groups' = groups
              /\ capabilities' = capabilities
        /\ <<tools, executors, groups, capabilities>>' #
               <<tools, executors, groups, capabilities>>
           => resp'.op \in {"RegisterTool", "RegisterGroup"}
        /\ resp'.op = "RegisterTool"
           => /\ groups' = groups
              /\ capabilities' = capabilities
              /\ DOMAIN tools' = (DOMAIN tools) \cup {resp'.arg.tool.Name}
              /\ DOMAIN executors' = (DOMAIN executors) \cup {resp'.arg.tool.Name}
              /\ \A n \in (DOMAIN tools) \ {resp'.arg.tool.Name} :
                     tools'[n] = tools[n]
              /\ \A n \in (DOMAIN executors) \ {resp'.arg.tool.Name} :
                     executors'[n] = executors[n]
        /\ resp'.op = "RegisterGroup"
           => /\ tools' = tools
              /\ executors' = executors
              /\ capabilities' = capabilities
              /\ DOMAIN groups' = (DOMAIN groups) \cup {resp'.arg.ID}
              /\ \A i \in (DOMAIN groups) \ {resp'.arg.ID} :
                     groups'[i] = groups[i]
      ]_vars

\* a tool whose executor failed is still registered, beside other tools and
\* groups
C23_Witness ==
    /\ resp.op = "ExecuteTool"
    /\ Returned
    /\ resp.ret[1].Error # Nil
    /\ resp.ret[1].Error[1].Code = "execution_error"
    /\ resp.arg \in DOMAIN executors
    /\ resp.arg \in DOMAIN tools
    /\ Cardinality(DOMAIN tools) >= 2
    /\ groups # << >>

====
